---- MODULE Spec2Model ----
(***************************************************************************)
(* Model of helpers/weather.js: place normalisation, geocode resolution,   *)
(* weather lookups and forecast summarisation.                             *)
(*                                                                         *)
(* A JavaScript string is a sequence of one-character strings, so that     *)
(* split, trim, replace, toLowerCase, includes and the regular             *)
(* expressions are computed character by character.  An optional value     *)
(* (undefined / null / a missing field) is the empty sequence None, a      *)
(* present value v is <<v>>.  Instants are in seconds (the code's          *)
(* milliseconds are the same instants times 1000).  Precipitation          *)
(* probabilities are in percent.                                           *)
(***************************************************************************)
EXTENDS Integers, Sequences, FiniteSets, TLC

VARIABLES
    API_KEY,     \* process.env.OPENWEATHER_KEY, read once at module load
    pc,          \* position of the getWeather invocation
    place,       \* getWeather's argument
    normalized,  \* normalizePlace(place)
    candidates,  \* the candidate queries
    ci,          \* index of the candidate the for loop is at
    geo,         \* None, or <<list of matches>>
    issued,      \* the fetch calls of this invocation, each with its response
    cur,         \* None, or <<body of the current-conditions response>>
    result,      \* None, or <<what the invocation returned or threw>>
    pq, pm, pr, ppc,                       \* pickBestGeoMatch: query, matches, result
    sList, sTz, sDays, sIdx, byDay,        \* summarizeForecast: arguments, loop state
    sNow, sMachineTz, sChosen, sOut, spc   \* clock, machine zone, chosen keys, result

wvars == <<API_KEY, pc, place, normalized, candidates, ci, geo, issued, cur, result>>
pvars == <<pq, pm, pr, ppc>>
svars == <<sList, sTz, sDays, sIdx, byDay, sNow, sMachineTz, sChosen, sOut, spc>>
vars == <<wvars, pvars, svars>>

None == <<>>
Some(v) == <<v>>
\* a ?? b
Coalesce(a, b) == IF a # None THEN a ELSE b

(***************************************************************************)
(* Characters and strings                                                  *)
(***************************************************************************)
UpperLetters == <<"A","B","C","D","E","F","G","H","I","J","K","L","M",
                  "N","O","P","Q","R","S","T","U","V","W","X","Y","Z">>
LowerLetters == <<"a","b","c","d","e","f","g","h","i","j","k","l","m",
                  "n","o","p","q","r","s","t","u","v","w","x","y","z">>
Digits == <<"0","1","2","3","4","5","6","7","8","9">>

IndexIn(c, t) ==
    IF \E i \in 1..Len(t) : t[i] = c THEN CHOOSE i \in 1..Len(t) : t[i] = c ELSE 0

IsLetter(c) == IndexIn(c, UpperLetters) > 0 \/ IndexIn(c, LowerLetters) > 0
\* \s
IsSpace(c) == c \in {" ", "\t", "\n"}
\* \w
IsWordChar(c) == IsLetter(c) \/ IndexIn(c, Digits) > 0 \/ c = "_"

toLowerChar(c) ==
    LET i == IndexIn(c, UpperLetters) IN IF i > 0 THEN LowerLetters[i] ELSE c
toUpperChar(c) ==
    LET i == IndexIn(c, LowerLetters) IN IF i > 0 THEN UpperLetters[i] ELSE c

RECURSIVE MapChars(_, _)
MapChars(s, upper) ==
    IF s = <<>> THEN <<>>
    ELSE <<IF upper THEN toUpperChar(Head(s)) ELSE toLowerChar(Head(s))>>
         \o MapChars(Tail(s), upper)

toLowerCase(s) == MapChars(s, FALSE)
toUpperCase(s) == MapChars(s, TRUE)

\* String.prototype.includes
includes(s, sub) ==
    \E i \in 1..(Len(s) - Len(sub) + 1) : SubSeq(s, i, i + Len(sub) - 1) = sub

\* String.prototype.trim
RECURSIVE trimStart(_)
trimStart(s) ==
    IF s # <<>> /\ IsSpace(Head(s)) THEN trimStart(Tail(s)) ELSE s
RECURSIVE trimEnd(_)
trimEnd(s) ==
    IF s # <<>> /\ IsSpace(s[Len(s)]) THEN trimEnd(SubSeq(s, 1, Len(s) - 1)) ELSE s
trim(s) == trimEnd(trimStart(s))

\* the first index >= i of s that holds no whitespace (Len(s)+1 if none)
RECURSIVE SkipSpace(_, _)
SkipSpace(s, i) ==
    IF i <= Len(s) /\ IsSpace(s[i]) THEN SkipSpace(s, i + 1) ELSE i

\* s.replace(/\s*,\s*/g, ", ") from index i on
RECURSIVE ReplaceCommas(_, _)
ReplaceCommas(s, i) ==
    IF i > Len(s) THEN <<>>
    ELSE LET j == SkipSpace(s, i) IN
         IF j <= Len(s) /\ s[j] = ","
         THEN <<",", " ">> \o ReplaceCommas(s, SkipSpace(s, j + 1))
         ELSE <<s[i]>> \o ReplaceCommas(s, i + 1)

\* s.replace(/\s+/g, " ") from index i on
RECURSIVE CollapseSpaces(_, _)
CollapseSpaces(s, i) ==
    IF i > Len(s) THEN <<>>
    ELSE IF IsSpace(s[i]) THEN <<" ">> \o CollapseSpaces(s, SkipSpace(s, i))
         ELSE <<s[i]>> \o CollapseSpaces(s, i + 1)

normalizePlace(input) == CollapseSpaces(ReplaceCommas(trim(input), 1), 1)

\* s.split(","): the segments between commas, from index i on, seg being
\* the segment under construction
RECURSIVE SplitFrom(_, _, _)
SplitFrom(s, i, seg) ==
    IF i > Len(s) THEN <<seg>>
    ELSE IF s[i] = "," THEN <<seg>> \o SplitFrom(s, i + 1, <<>>)
         ELSE SplitFrom(s, i + 1, Append(seg, s[i]))
split(s) == SplitFrom(s, 1, <<>>)

RECURSIVE TrimAll(_)
TrimAll(segs) ==
    IF segs = <<>> THEN <<>> ELSE <<trim(Head(segs))>> \o TrimAll(Tail(segs))

\* .filter(Boolean) on a list of strings: the empty string is falsy
RECURSIVE FilterNonEmpty(_)
FilterNonEmpty(segs) ==
    IF segs = <<>> THEN <<>>
    ELSE (IF Head(segs) # <<>> THEN <<Head(segs)>> ELSE <<>>)
         \o FilterNonEmpty(Tail(segs))

\* q.split(",").map((p) => p.trim()).filter(Boolean)
Parts(q) == FilterNonEmpty(TrimAll(split(q)))

\* /^[A-Za-z]{2}$/.test(s)
IsTwoLetters(s) == Len(s) = 2 /\ IsLetter(s[1]) /\ IsLetter(s[2])

maybeAppendUS(q) ==
    LET parts == Parts(q) IN
    IF Len(parts) = 2 /\ IsTwoLetters(parts[2])
    THEN parts[1] \o <<",", " ">> \o toUpperCase(parts[2]) \o <<",", " ", "U", "S">>
    ELSE q

\* the candidate list without the Set: duplicates kept
UniqueInOrder_KeepAll(list, seen) == list

\* [...new Set(list)]: first occurrences, in order
RECURSIVE UniqueInOrder(_, _)
UniqueInOrder(list, seen) ==
    IF list = <<>> THEN <<>>
    ELSE IF Head(list) \in seen THEN UniqueInOrder(Tail(list), seen)
         ELSE <<Head(list)>> \o UniqueInOrder(Tail(list), seen \cup {Head(list)})

Candidates(norm) ==
    UniqueInOrder(<<norm, maybeAppendUS(norm), norm \o <<",", " ", "U", "S">>>>, {})

(***************************************************************************)
(* Geocode matches                                                         *)
(***************************************************************************)
\* A match {name, state?, country, lat, lon}; a missing state is the empty
\* string (the code reads it only through `g.state ?? ""` and `g.state ?`).
Match(name, state, country, lat, lon) ==
    [name |-> name, state |-> state, country |-> country, lat |-> lat, lon |-> lon]

\* arr.findIndex((x) => x.lat === g.lat && x.lon === g.lon)
findIndexCoords(arr, g) ==
    CHOOSE i \in 1..Len(arr) :
        /\ arr[i].lat = g.lat /\ arr[i].lon = g.lon
        /\ \A j \in 1..(i - 1) : ~(arr[j].lat = g.lat /\ arr[j].lon = g.lon)

\* no deduplication at all
dedupeGeo_KeepAll(results) == results

RECURSIVE DedupeFrom(_, _)
DedupeFrom(arr, i) ==
    IF i > Len(arr) THEN <<>>
    ELSE (IF i = findIndexCoords(arr, arr[i]) THEN <<arr[i]>> ELSE <<>>)
         \o DedupeFrom(arr, i + 1)

dedupeGeo(results) == DedupeFrom(results, 1)

\* geoResults.find(pred), hits being the indexes of the elements that satisfy
\* pred: <<the first of them>>, or None
FindFirst(list, hits) ==
    IF hits # {}
    THEN Some(list[CHOOSE i \in hits : \A j \in hits : i <= j])
    ELSE None

\* the country token tried before the state token
pickBestGeoMatch_CountryFirst(query, geoResults) ==
    LET parts == Parts(query)
        maybeState == IF Len(parts) >= 2 THEN toLowerCase(parts[2]) ELSE <<>>
        maybeCountry == IF Len(parts) >= 3 THEN toLowerCase(parts[3]) ELSE <<>>
        StateEq(g) == toLowerCase(g.state) = maybeState
        CountryEq(g) == toLowerCase(g.country) = maybeCountry
        StateNamed(g) == g.state # <<>> /\ includes(toLowerCase(query), toLowerCase(g.state))
        Where(P(_)) == { i \in 1..Len(geoResults) : P(geoResults[i]) }
        stateHit == IF maybeState # <<>> THEN FindFirst(geoResults, Where(StateEq)) ELSE None
        countryHit == IF maybeCountry # <<>> /\ Len(maybeCountry) <= 3
                      THEN FindFirst(geoResults, Where(CountryEq)) ELSE None
        stateNameHit == FindFirst(geoResults, Where(StateNamed))
    IN  IF countryHit # None THEN countryHit[1]
        ELSE IF stateHit # None THEN stateHit[1]
        ELSE IF stateNameHit # None THEN stateNameHit[1]
        ELSE geoResults[1]

pickBestGeoMatch(query, geoResults) ==
    LET q == toLowerCase(query)
        parts == Parts(query)
        maybeState == IF Len(parts) >= 2 THEN toLowerCase(parts[2]) ELSE <<>>
        maybeCountry == IF Len(parts) >= 3 THEN toLowerCase(parts[3]) ELSE <<>>
        StateEq(g) == toLowerCase(g.state) = maybeState
        CountryEq(g) == toLowerCase(g.country) = maybeCountry
        StateNamed(g) == g.state # <<>> /\ includes(q, toLowerCase(g.state))
        Where(P(_)) == { i \in 1..Len(geoResults) : P(geoResults[i]) }
        stateHit == IF maybeState # <<>> THEN FindFirst(geoResults, Where(StateEq)) ELSE None
        countryHit == IF maybeCountry # <<>> /\ Len(maybeCountry) <= 3
                      THEN FindFirst(geoResults, Where(CountryEq)) ELSE None
        stateNameHit == FindFirst(geoResults, Where(StateNamed))
    IN  IF stateHit # None THEN stateHit[1]
        ELSE IF countryHit # None THEN countryHit[1]
        ELSE IF stateNameHit # None THEN stateNameHit[1]
        ELSE geoResults[1]

\* /\bus\b/i.test(s)
HasUsToken(s) ==
    LET l == toLowerCase(s) IN
    \E i \in 1..(Len(l) - 1) :
        /\ l[i] = "u" /\ l[i + 1] = "s"
        /\ (i = 1 \/ ~IsWordChar(l[i - 1]))
        /\ (i + 1 = Len(l) \/ ~IsWordChar(l[i + 2]))

UnitedStates == <<"u","n","i","t","e","d"," ","s","t","a","t","e","s">>

\* normalized.includes(",") || /united states|usa|\bus\b/i.test(normalized)
seemsSpecific(norm) ==
    \/ includes(norm, <<",">>)
    \/ includes(toLowerCase(norm), UnitedStates)
    \/ includes(toLowerCase(norm), <<"u","s","a">>)
    \/ HasUsToken(norm)

\* `${g.name}${g.state ? `, ${g.state}` : ""}, ${g.country}`
locName(g) ==
    g.name \o (IF g.state # <<>> THEN <<",", " ">> \o g.state ELSE <<>>)
           \o <<",", " ">> \o g.country

\* geo.slice(0, 3).map((g, i) => `**${i + 1}.** ...`): the numbered option lines
OptionsShown == 3
\* every match listed, not the first three
Options_All(g) == [i \in 1..Len(g) |-> [rank |-> i, text |-> locName(g[i])]]

Options(g) ==
    [i \in 1..(IF Len(g) < OptionsShown THEN Len(g) ELSE OptionsShown) |->
        [rank |-> i, text |-> locName(g[i])]]

(***************************************************************************)
(* Calendar: what Date, Date.UTC and the getUTC* accessors compute          *)
(***************************************************************************)
SecondsPerDay == 86400

\* days since 1970-01-01 of the proleptic Gregorian date y-m-d (Date.UTC)
DaysFromCivil(y, m, d) ==
    LET yy  == IF m <= 2 THEN y - 1 ELSE y
        era == yy \div 400
        yoe == yy - era * 400
        mp  == IF m > 2 THEN m - 3 ELSE m + 9
        doy == (153 * mp + 2) \div 5 + d - 1
        doe == yoe * 365 + yoe \div 4 - yoe \div 100 + doy
    IN  era * 146097 + doe - 719468

\* the date [y, m, d] of day number z (getUTCFullYear / Month + 1 / Date)
CivilFromDays(z) ==
    LET zz  == z + 719468
        era == zz \div 146097
        doe == zz - era * 146097
        yoe == (doe - doe \div 1460 + doe \div 36524 - doe \div 146096) \div 365
        doy == doe - (365 * yoe + yoe \div 4 - yoe \div 100)
        mp  == (5 * doy + 2) \div 153
        d   == doy - (153 * mp + 2) \div 5 + 1
        m   == IF mp < 10 THEN mp + 3 ELSE mp - 9
        y   == yoe + era * 400 + (IF m <= 2 THEN 1 ELSE 0)
    IN  [y |-> y, m |-> m, d |-> d]

\* String(n) for n >= 0
RECURSIVE NumToChars(_)
NumToChars(n) ==
    IF n < 10 THEN <<Digits[n + 1]>>
    ELSE NumToChars(n \div 10) \o <<Digits[(n % 10) + 1]>>

\* Number(s) for a string of digits
RECURSIVE CharsToNum(_)
CharsToNum(s) ==
    IF s = <<>> THEN 0
    ELSE 10 * CharsToNum(SubSeq(s, 1, Len(s) - 1)) + (IndexIn(s[Len(s)], Digits) - 1)

\* s.padStart(2, "0")
padStart2(s) == IF Len(s) < 2 THEN <<"0">> \o s ELSE s

dayKeyFromUtcWithOffset(dtSeconds, tzOffsetSeconds) ==
    LET c == CivilFromDays((dtSeconds + tzOffsetSeconds) \div SecondsPerDay)
    IN  NumToChars(c.y) \o <<"-">> \o padStart2(NumToChars(c.m))
                        \o <<"-">> \o padStart2(NumToChars(c.d))

\* key.split("-")
RECURSIVE SplitDash(_, _, _)
SplitDash(s, i, seg) ==
    IF i > Len(s) THEN <<seg>>
    ELSE IF s[i] = "-" THEN <<seg>> \o SplitDash(s, i + 1, <<>>)
         ELSE SplitDash(s, i + 1, Append(seg, s[i]))

WeekdayNames == <<"Sun", "Mon", "Tue", "Wed", "Thu", "Fri", "Sat">>
MonthNames == <<"Jan", "Feb", "Mar", "Apr", "May", "Jun",
                "Jul", "Aug", "Sep", "Oct", "Nov", "Dec">>

\* date.toLocaleDateString("en-US", {weekday: "short", month: "short",
\* day: "numeric"}) of the instant `seconds`.  The call passes no timeZone
\* option, so the fields are those of the instant in the machine's own zone,
\* `zone` seconds east of UTC.
toLocaleDateString(seconds, zone) ==
    LET day == (seconds + zone) \div SecondsPerDay
        c   == CivilFromDays(day)
    IN  WeekdayNames[((day + 4) % 7) + 1] \o ", " \o MonthNames[c.m]
            \o " " \o ToString(c.d)

\* labelFromKey(key) on a machine whose zone is `zone` seconds east of UTC
labelFromKey(key, zone) ==
    LET f == SplitDash(key, 1, <<>>)
        y == CharsToNum(f[1])
        m == CharsToNum(f[2])
        d == CharsToNum(f[3])
    IN  toLocaleDateString(DaysFromCivil(y, m, d) * SecondsPerDay, zone)

(***************************************************************************)
(* summarizeForecast                                                       *)
(***************************************************************************)
\* A forecast point: dt, main (None or <<[temp_min, temp_max, temp]>>, each
\* field None or <<number>>), desc (weather?.[0]?.description, None or
\* <<string>>) and pop (None or <<number>>).
Item(dt, main, desc, pop) == [dt |-> dt, main |-> main, desc |-> desc, pop |-> pop]
Main(tmin, tmax, temp) == Some([temp_min |-> tmin, temp_max |-> tmax, temp |-> temp])

\* item.main?.[f]
MainField(item, f) == IF item.main = None THEN None ELSE item.main[1][f]

\* temp_min without the fallback to temp
ItemMin_NoFallback(item) == MainField(item, "temp_min")

\* item.main?.temp_min ?? item.main?.temp ?? null
ItemMin(item) == Coalesce(MainField(item, "temp_min"), MainField(item, "temp"))
\* item.main?.temp_max ?? item.main?.temp ?? null
ItemMax(item) == Coalesce(MainField(item, "temp_max"), MainField(item, "temp"))

\* if (min == null || max == null) continue;
Skipped(item) == ItemMin(item) = None \/ ItemMax(item) = None

MathMin(a, b) == IF a <= b THEN a ELSE b
MathMax(a, b) == IF a >= b THEN a ELSE b

\* byDay is a Map in insertion order: a sequence of entries
\* [key, min, max, descCounts, popMax]; descCounts is a Map in insertion
\* order too: a sequence of [desc, count].
HasKey(bd, key) == \E i \in 1..Len(bd) : bd[i].key = key
KeyIndex(bd, key) == CHOOSE i \in 1..Len(bd) : bd[i].key = key
MapGet(bd, key) == bd[KeyIndex(bd, key)]
MapKeys(bd) == [i \in 1..Len(bd) |-> bd[i].key]

\* agg.descCounts.set(desc, (agg.descCounts.get(desc) ?? 0) + 1)
CountDesc(counts, desc) ==
    IF \E i \in 1..Len(counts) : counts[i].desc = desc
    THEN [i \in 1..Len(counts) |->
            IF counts[i].desc = desc
            THEN [desc |-> desc, count |-> counts[i].count + 1]
            ELSE counts[i]]
    ELSE Append(counts, [desc |-> desc, count |-> 1])

\* one iteration of the for loop over list
FoldItem(bd, item, tzOffsetSeconds) ==
    LET key  == dayKeyFromUtcWithOffset(item.dt, tzOffsetSeconds)
        min  == ItemMin(item)
        max  == ItemMax(item)
        bd1  == IF HasKey(bd, key) THEN bd
                ELSE Append(bd, [key |-> key, min |-> min[1], max |-> max[1],
                                 descCounts |-> <<>>, popMax |-> 0])
        k    == KeyIndex(bd1, key)
        desc == Coalesce(item.desc, Some("unknown"))[1]
        pop  == IF item.pop # None THEN item.pop[1] ELSE 0
    IN  IF Skipped(item) THEN bd
        ELSE [bd1 EXCEPT ![k] =
                [key |-> key,
                 min |-> MathMin(bd1[k].min, min[1]),
                 max |-> MathMax(bd1[k].max, max[1]),
                 descCounts |-> CountDesc(bd1[k].descCounts, desc),
                 popMax |-> MathMax(bd1[k].popMax, pop)]]

RECURSIVE FoldList(_, _, _)
FoldList(bd, list, tzOffsetSeconds) ==
    IF list = <<>> THEN bd
    ELSE FoldList(FoldItem(bd, Head(list), tzOffsetSeconds), Tail(list), tzOffsetSeconds)

\* UTF-16 code unit order of the characters of a date key
CharCode(c) == IF c = "-" THEN 45 ELSE 47 + IndexIn(c, Digits)

\* a < b as JavaScript compares strings
RECURSIVE StringLess(_, _)
StringLess(a, b) ==
    IF b = <<>> THEN FALSE
    ELSE IF a = <<>> THEN TRUE
    ELSE IF Head(a) # Head(b) THEN CharCode(Head(a)) < CharCode(Head(b))
    ELSE StringLess(Tail(a), Tail(b))

\* keys.sort(): ascending, by insertion
RECURSIVE InsertSorted(_, _)
InsertSorted(sorted, k) ==
    IF sorted = <<>> THEN <<k>>
    ELSE IF StringLess(k, Head(sorted)) THEN <<k>> \o sorted
    ELSE <<Head(sorted)>> \o InsertSorted(Tail(sorted), k)
RECURSIVE sort(_)
sort(keys) ==
    IF keys = <<>> THEN <<>>
    ELSE InsertSorted(sort(SubSeq(keys, 1, Len(keys) - 1)), keys[Len(keys)])

\* keys.filter((k) => k !== nowKey)
RECURSIVE FilterNot(_, _)
FilterNot(keys, nowKey) ==
    IF keys = <<>> THEN <<>>
    ELSE (IF Head(keys) # nowKey THEN <<Head(keys)>> ELSE <<>>)
         \o FilterNot(Tail(keys), nowKey)

\* arr.slice(0, n) for n >= 0
slice0(arr, n) == SubSeq(arr, 1, MathMin(n, Len(arr)))

\* today's bucket never excluded
ChosenKeys_KeepToday(bd, tzOffsetSeconds, days, now) ==
    slice0(sort(MapKeys(bd)), days)

\* the keys of the days summarizeForecast reports
ChosenKeys(bd, tzOffsetSeconds, days, now) ==
    LET nowKey     == dayKeyFromUtcWithOffset(now, tzOffsetSeconds)
        keys       == sort(MapKeys(bd))
        futureKeys == FilterNot(keys, nowKey)
    IN  slice0(IF Len(futureKeys) > 0 THEN futureKeys ELSE keys, days)

\* the description with the highest count, the first such in insertion order
RECURSIVE TopDescFrom(_, _, _, _)
TopDescFrom(counts, i, topDesc, topCount) ==
    IF i > Len(counts) THEN topDesc
    ELSE IF counts[i].count > topCount
         THEN TopDescFrom(counts, i + 1, counts[i].desc, counts[i].count)
         ELSE TopDescFrom(counts, i + 1, topDesc, topCount)

DaySummary(agg, zone) ==
    [label |-> labelFromKey(agg.key, zone),
     min   |-> agg.min,
     max   |-> agg.max,
     desc  |-> TopDescFrom(agg.descCounts, 1, "mixed conditions", 0),
     pop   |-> agg.popMax]

\* chosen.map((k) => ...)
Summaries(bd, chosen, zone) ==
    [i \in 1..Len(chosen) |-> DaySummary(MapGet(bd, chosen[i]), zone)]

\* summarizeForecast(list, tzOffsetSeconds, days), called at instant `now`
\* (Date.now() / 1000, floored) on a machine in zone `zone`
summarizeForecast(list, tzOffsetSeconds, days, now, zone) ==
    LET bd == FoldList(<<>>, list, tzOffsetSeconds)
    IN  Summaries(bd, ChosenKeys(bd, tzOffsetSeconds, days, now), zone)

(***************************************************************************)
(* Inputs                                                                  *)
(***************************************************************************)
\* process.env.OPENWEATHER_KEY: unset, set to the empty string, or set
Undefined == "undefined"
ApiKeys == {Undefined, "", "k3y"}

S_Springfield == <<"S","p","r","i","n","g","f","i","e","l","d">>
S_US == <<"U","S">>
P_SeattleWA == <<"S","e","a","t","t","l","e",","," ","W","A">>
Places ==
    { P_SeattleWA,
      <<" ","S","e","a","t","t","l","e"," ",",","w","a">>,
      S_Springfield,
      S_Springfield \o <<","," ","M","i","s","s","o","u","r","i">>,
      <<"B","u","s","a","n">>,
      <<>> }


\* what the geocoder may return, in its own order
GeoPool ==
    << Match(S_Springfield, <<"I","l","l","i","n","o","i","s">>, S_US, 3980, -8964),
       Match(S_Springfield, <<"M","i","s","s","o","u","r","i">>, S_US, 3721, -9329),
       Match(S_Springfield, <<"M","a","s","s","a","c","h","u","s","e","t","t","s">>, S_US, 4210, -7259),
       Match(<<"S","e","a","t","t","l","e">>, <<"W","a","s","h","i","n","g","t","o","n">>, S_US, 4760, -12233),
       Match(<<"S","P","R","I","N","G","F","I","E","L","D">>, <<>>, S_US, 3980, -8964) >>

\* the longest geocoder answer explored (the request caps it at limit=5)
MaxGeoLen == 4

IsInjective(f) == \A i, j \in DOMAIN f : f[i] = f[j] => i = j

\* the lists of at most n distinct elements of pool
ListsOver(pool, n) ==
    { [i \in 1..Len(f) |-> pool[f[i]]] :
        f \in { g \in UNION { [1..k -> 1..Len(pool)] : k \in 0..n } : IsInjective(g) } }

GeoAnswers == ListsOver(GeoPool, MaxGeoLen)

\* the statuses of the non-success responses explored
FailStatuses == {401, 503}

\* a response as fetchJson sees it: res.ok, res.status and the parsed body
Failure(status) == [ok |-> FALSE, status |-> status, body |-> <<>>]
Success(body) == [ok |-> TRUE, status |-> 200, body |-> body]

\* a geocoder body: a JSON array of matches, or JSON that is no array
ArrayBody(items) == [isArray |-> TRUE, items |-> items]
OtherBody == [isArray |-> FALSE, items |-> <<>>]
GeoBodies == { ArrayBody(a) : a \in GeoAnswers } \cup {OtherBody}

\* bodies of the current-conditions response
CurBody(tz, temp, feels, humidity, wind, desc) ==
    [timezone |-> tz, temp |-> temp, feels_like |-> feels, humidity |-> humidity,
     wind |-> wind, desc |-> desc]
CurBodies ==
    { CurBody(Some(-28800), Some(52), Some(49), Some(80), Some(7), Some("light rain")),
      CurBody(None, None, None, None, None, None) }

\* 2024-02-28T00:00:00Z, a Wednesday
BaseInstant == 19781 * SecondsPerDay
Hour == 60 * 60

\* forecast points, in chronological order
ItemPool ==
    << Item(BaseInstant + 18 * Hour, Main(Some(50), Some(60), Some(55)), Some("light rain"), Some(60)),
       Item(BaseInstant + 21 * Hour, Main(Some(48), Some(52), Some(50)), Some("clear sky"), None),
       Item(BaseInstant + 27 * Hour, Main(None, None, Some(40)), None, Some(10)),
       Item(BaseInstant + 30 * Hour, None, Some("snow"), Some(90)),
       Item(BaseInstant + 48 * Hour, Main(Some(30), None, None), Some("snow"), Some(70)),
       Item(BaseInstant + 51 * Hour, Main(Some(45), Some(70), Some(57)), Some("clear sky"), Some(20)),
       Item(BaseInstant + 75 * Hour, Main(None, Some(20), None), None, None),
       Item(BaseInstant + 78 * Hour, Main(Some(-5), Some(10), Some(0)), Some("snow"), Some(100)) >>

\* Date.now() / 1000, floored
Nows == {BaseInstant + 19 * Hour, BaseInstant + 50 * Hour}
\* the zone of the machine running the code, seconds east of UTC
MachineZones == {-28800, 0}
\* the location's offset, as the provider reports it
TzOffsets == {-28800, 0, 32400}

\* bodies of the forecast response: {list?}
ForecastBodies ==
    { [list |-> None],
      [list |-> Some(<<ItemPool[2], ItemPool[3], ItemPool[4], ItemPool[5], ItemPool[8]>>)] }

(***************************************************************************)
(* getWeather                                                              *)
(***************************************************************************)
\* the request-capped number of geocoder results, and the days reported
GeoLimit == 5
DaysReported == 3

\* !API_KEY
\* only an unset variable counts as missing
KeyMissing_UnsetOnly == API_KEY = Undefined

KeyMissing == API_KEY = Undefined \/ API_KEY = ""

\* latitude and longitude exchanged
WeatherUrl_Swapped(g) ==
    [lat |-> g.lon, lon |-> g.lat, units |-> "imperial", appid |-> API_KEY]

GeoUrl(q) == [q |-> q, limit |-> GeoLimit, appid |-> API_KEY]
WeatherUrl(g) == [lat |-> g.lat, lon |-> g.lon, units |-> "imperial", appid |-> API_KEY]

\* a fetch call and the response it got
Lookup(kind, url, resp) == [kind |-> kind, url |-> url, resp |-> resp]

\* what fetchJson throws on a response that is not ok
HttpError(status) == [thrown |-> TRUE, error |-> "HTTP", status |-> status]
ConfigError == [thrown |-> TRUE, error |-> "Missing OPENWEATHER_KEY", status |-> 0]

NotFound(p) == [ok |-> FALSE, template |-> "couldn't find", place |-> p, options |-> <<>>]
Ambiguous(p, g) ==
    [ok |-> FALSE, template |-> "multiple matches", place |-> p, options |-> Options(g)]

\* Array.isArray(attempt) && attempt.length > 0
HasResults(body) == body.isArray /\ Len(body.items) > 0

\* const loc = geo[0]
loc == geo[1][1]

Finished == pc \in {"idle", "returned", "thrown"}

\* getWeather(p) without a credential: assertApiKey throws
CallWithoutKey(p) ==
    /\ Finished
    /\ KeyMissing
    /\ place' = p
    /\ normalized' = <<>> /\ candidates' = <<>> /\ ci' = 0
    /\ geo' = None /\ issued' = <<>> /\ cur' = None
    /\ result' = Some(ConfigError)
    /\ pc' = "thrown"
    /\ UNCHANGED <<API_KEY, pvars, svars>>

\* normalizePlace and the candidate list, tabulated over the places explored
NormalizedOf == [p \in Places |-> normalizePlace(p)]
CandidatesOf == [p \in Places |-> Candidates(normalizePlace(p))]

\* getWeather(p) up to the first geocode lookup
Call(p) ==
    /\ Finished
    /\ ~KeyMissing
    /\ place' = p
    /\ normalized' = NormalizedOf[p]
    /\ candidates' = CandidatesOf[p]
    /\ ci' = 1
    /\ geo' = None /\ issued' = <<>> /\ cur' = None /\ result' = None
    /\ pc' = "geocode"
    /\ UNCHANGED <<API_KEY, pvars, svars>>

\* a failed geocode lookup swallowed: the loop goes on to the next candidate
GeocodeFails_TryNext(status) ==
    /\ pc = "geocode"
    /\ ci < Len(candidates)
    /\ issued' = Append(issued, Lookup("geocode", GeoUrl(candidates[ci]), Failure(status)))
    /\ ci' = ci + 1
    /\ UNCHANGED <<API_KEY, pc, place, normalized, candidates, geo, cur, result, pvars, svars>>

\* the geocode lookup of candidates[ci] gets a response that is not ok
GeocodeFails(status) ==
    /\ pc = "geocode"
    /\ issued' = Append(issued, Lookup("geocode", GeoUrl(candidates[ci]), Failure(status)))
    /\ result' = Some(HttpError(status))
    /\ pc' = "thrown"
    /\ UNCHANGED <<API_KEY, place, normalized, candidates, ci, geo, cur, pvars, svars>>

\* it yields nothing and another candidate is left
GeocodeNextCandidate(body) ==
    /\ pc = "geocode"
    /\ ~HasResults(body)
    /\ ci < Len(candidates)
    /\ issued' = Append(issued, Lookup("geocode", GeoUrl(candidates[ci]), Success(body)))
    /\ ci' = ci + 1
    /\ UNCHANGED <<API_KEY, pc, place, normalized, candidates, geo, cur, result, pvars, svars>>

\* it yields nothing and it was the last candidate
GeocodeNotFound(body) ==
    /\ pc = "geocode"
    /\ ~HasResults(body)
    /\ ci = Len(candidates)
    /\ issued' = Append(issued, Lookup("geocode", GeoUrl(candidates[ci]), Success(body)))
    /\ result' = Some(NotFound(place))
    /\ pc' = "returned"
    /\ UNCHANGED <<API_KEY, place, normalized, candidates, ci, geo, cur, pvars, svars>>

\* it yields several matches and the input does not seem specific
GeocodeAmbiguous(body) ==
    /\ pc = "geocode"
    /\ HasResults(body)
    /\ Len(dedupeGeo(body.items)) > 1
    /\ ~seemsSpecific(normalized)
    /\ issued' = Append(issued, Lookup("geocode", GeoUrl(candidates[ci]), Success(body)))
    /\ geo' = Some(dedupeGeo(body.items))
    /\ result' = Some(Ambiguous(place, dedupeGeo(body.items)))
    /\ pc' = "returned"
    /\ UNCHANGED <<API_KEY, place, normalized, candidates, ci, cur, pvars, svars>>

\* it yields one match, or several of which pickBestGeoMatch picks one
GeocodeResolved(body) ==
    /\ pc = "geocode"
    /\ HasResults(body)
    /\ LET g == dedupeGeo(body.items) IN
        /\ Len(g) > 1 => seemsSpecific(normalized)
        /\ geo' = Some(IF Len(g) > 1 THEN <<pickBestGeoMatch(normalized, g)>> ELSE g)
    /\ issued' = Append(issued, Lookup("geocode", GeoUrl(candidates[ci]), Success(body)))
    /\ pc' = "current"
    /\ UNCHANGED <<API_KEY, place, normalized, candidates, ci, cur, result, pvars, svars>>

CurrentFails(status) ==
    /\ pc = "current"
    /\ issued' = Append(issued, Lookup("current", WeatherUrl(loc), Failure(status)))
    /\ result' = Some(HttpError(status))
    /\ pc' = "thrown"
    /\ UNCHANGED <<API_KEY, place, normalized, candidates, ci, geo, cur, pvars, svars>>

CurrentOk(body) ==
    /\ pc = "current"
    /\ issued' = Append(issued, Lookup("current", WeatherUrl(loc), Success(body)))
    /\ cur' = Some(body)
    /\ pc' = "forecast"
    /\ UNCHANGED <<API_KEY, place, normalized, candidates, ci, geo, result, pvars, svars>>

ForecastFails(status) ==
    /\ pc = "forecast"
    /\ issued' = Append(issued, Lookup("forecast", WeatherUrl(loc), Failure(status)))
    /\ result' = Some(HttpError(status))
    /\ pc' = "thrown"
    /\ UNCHANGED <<API_KEY, place, normalized, candidates, ci, geo, cur, pvars, svars>>

\* the forecast arrives; summarise at instant now on a machine in zone `zone`
ForecastOk(body, now, zone) ==
    /\ pc = "forecast"
    /\ issued' = Append(issued, Lookup("forecast", WeatherUrl(loc), Success(body)))
    /\ LET tzOffsetSeconds == Coalesce(cur[1].timezone, Some(0))[1]
           current == [temp     |-> cur[1].temp,
                       feels    |-> cur[1].feels_like,
                       humidity |-> cur[1].humidity,
                       wind     |-> cur[1].wind,
                       desc     |-> Coalesce(cur[1].desc, Some("unknown"))[1]]
           nextDays == summarizeForecast(Coalesce(body.list, Some(<<>>))[1],
                                         tzOffsetSeconds, DaysReported, now, zone)
       IN  result' = Some([ok |-> TRUE, location |-> locName(loc),
                           current |-> current, nextDays |-> nextDays])
    /\ pc' = "returned"
    /\ UNCHANGED <<API_KEY, place, normalized, candidates, ci, geo, cur, pvars, svars>>

PickIdle == pq = <<>> /\ pm = <<>> /\ pr = None /\ ppc = "unused"
SummarizeIdle ==
    /\ sList = <<>> /\ sTz = 0 /\ sDays = 0 /\ sIdx = 0 /\ byDay = <<>>
    /\ sNow = 0 /\ sMachineTz = 0 /\ sChosen = <<>> /\ sOut = <<>> /\ spc = "unused"
WeatherIdle ==
    /\ API_KEY = Undefined /\ pc = "unused" /\ place = <<>> /\ normalized = <<>>
    /\ candidates = <<>> /\ ci = 0 /\ geo = None /\ issued = <<>> /\ cur = None
    /\ result = None

(***************************************************************************)
(* pickBestGeoMatch on its own                                             *)
(***************************************************************************)
S_Paris == <<"P","a","r","i","s">>
PickPool ==
    << Match(S_Paris, <<"T","e","x","a","s">>, S_US, 3366, -9555),
       Match(S_Paris, <<>>, <<"F","R">>, 4885, 235),
       Match(S_Paris, <<"T","X">>, S_US, 3630, -8832),
       Match(S_Paris, <<"O","n","t","a","r","i","o">>, <<"C","A">>, 4320, -8038) >>

\* the queries, as the user typed them
PickPlaces ==
    { <<"P","a","r","i","s">>, <<"P","a","r","i","s",","," ","T","X">>, <<"P","a","r","i","s",","," ","T","e","x","a","s">>, <<"P","a","r","i","s",",",",","F","R">>,
      <<"P","a","r","i","s",","," ","x",","," ","F","R">>, <<"P","a","r","i","s"," ","T","e","x","a","s">>, <<"P","a","r","i","s",","," ","T","X",","," ","F","r","a","n","c","e">>, <<"P","a","r","i","s",","," ","T","X",","," ","F","R">> }

\* the longest match list explored
MaxPickLen == 3
PickLists == ListsOver(PickPool, MaxPickLen) \ {<<>>}

InitPick ==
    /\ pq \in { normalizePlace(p) : p \in PickPlaces }
    /\ pm \in PickLists
    /\ pr = None
    /\ ppc = "call"
    /\ WeatherIdle /\ SummarizeIdle

PickCall ==
    /\ ppc = "call"
    /\ pr' = Some(pickBestGeoMatch(pq, pm))
    /\ ppc' = "done"
    /\ UNCHANGED <<pq, pm, wvars, svars>>

NextPick == PickCall

SpecPick == InitPick /\ [][NextPick]_vars

(***************************************************************************)
(* summarizeForecast on its own, one loop iteration per step               *)
(***************************************************************************)
\* the longest forecast list explored
MaxPoints == 3

\* chronological lists: the points of ItemPool at increasing indexes
ForecastLists ==
    { [i \in 1..Len(f) |-> ItemPool[f[i]]] :
        f \in { g \in UNION { [1..k -> 1..Len(ItemPool)] : k \in 0..MaxPoints } :
                  \A i, j \in DOMAIN g : i < j => g[i] < g[j] } }

InitSummarize ==
    /\ sList \in ForecastLists
    /\ sTz \in TzOffsets
    /\ sDays \in 1..DaysReported
    /\ sIdx = 1
    /\ byDay = <<>>
    /\ sNow = 0 /\ sMachineTz = 0 /\ sChosen = <<>> /\ sOut = <<>>
    /\ spc = "loop"
    /\ WeatherIdle /\ PickIdle

\* for (const item of list) { ... }: one iteration
FoldPoint ==
    /\ spc = "loop"
    /\ sIdx <= Len(sList)
    /\ byDay' = FoldItem(byDay, sList[sIdx], sTz)
    /\ sIdx' = sIdx + 1
    /\ UNCHANGED <<sList, sTz, sDays, sNow, sMachineTz, sChosen, sOut, spc, wvars, pvars>>

\* the code after the loop, run at instant now on a machine in zone `zone`
Summarize(now, zone) ==
    /\ spc = "loop"
    /\ sIdx > Len(sList)
    /\ sNow' = now
    /\ sMachineTz' = zone
    /\ sChosen' = ChosenKeys(byDay, sTz, sDays, now)
    /\ sOut' = Summaries(byDay, ChosenKeys(byDay, sTz, sDays, now), zone)
    /\ spc' = "done"
    /\ UNCHANGED <<sList, sTz, sDays, sIdx, byDay, wvars, pvars>>

NextSummarize ==
    \/ FoldPoint
    \/ \E now \in Nows, zone \in MachineZones : Summarize(now, zone)

SpecSummarize == InitSummarize /\ [][NextSummarize]_vars

Init ==
    /\ API_KEY \in ApiKeys
    /\ pc = "idle"
    /\ place = <<>> /\ normalized = <<>> /\ candidates = <<>> /\ ci = 0
    /\ geo = None /\ issued = <<>> /\ cur = None /\ result = None
    /\ PickIdle /\ SummarizeIdle

Next ==
    \/ \E p \in Places : CallWithoutKey(p)
    \/ \E p \in Places : Call(p)
    \/ \E st \in FailStatuses : GeocodeFails(st)
    \/ \E b \in GeoBodies : GeocodeNextCandidate(b)
    \/ \E b \in GeoBodies : GeocodeNotFound(b)
    \/ \E b \in GeoBodies : GeocodeAmbiguous(b)
    \/ \E b \in GeoBodies : GeocodeResolved(b)
    \/ \E st \in FailStatuses : CurrentFails(st)
    \/ \E b \in CurBodies : CurrentOk(b)
    \/ \E st \in FailStatuses : ForecastFails(st)
    \/ \E b \in ForecastBodies, now \in Nows, zone \in MachineZones : ForecastOk(b, now, zone)

Spec == Init /\ [][Next]_vars



(***************************************************************************)
(* Properties of getWeather (specification Spec)                           *)
(***************************************************************************)
Returned == pc = "returned" /\ result # None

GeocodeIdx == { i \in 1..Len(issued) : issued[i].kind = "geocode" }
WeatherIdx(kind) == { i \in 1..Len(issued) : issued[i].kind = kind }

\* the geocode lookup that yielded results, if any
YieldedResults(i) ==
    /\ issued[i].kind = "geocode"
    /\ issued[i].resp.ok
    /\ issued[i].resp.body.isArray
    /\ Len(issued[i].resp.body.items) > 0
YieldedNothing(i) ==
    /\ issued[i].kind = "geocode"
    /\ issued[i].resp.ok
    /\ ~(issued[i].resp.body.isArray /\ Len(issued[i].resp.body.items) > 0)

\* the indexes of items at which a (lat, lon) pair occurs for the first time
FirstAtCoords(items) ==
    { i \in 1..Len(items) :
        \A j \in 1..(i - 1) : items[j].lat # items[i].lat \/ items[j].lon # items[i].lon }

\* d lists exactly the items at the indexes K, in increasing index order
ListsExactly(d, items, K) ==
    /\ Len(d) = Cardinality(K)
    /\ \A n \in 1..Len(d) :
         \E i \in K : Cardinality({ j \in K : j < i }) = n - 1 /\ d[n] = items[i]

\* C1: without the credential (unset or empty) every call throws before any
\* lookup is issued: no state has a lookup in flight or done, no call is past
\* its first statement, and a finished call has thrown the configuration error.
C1_NoLookupWithoutCredential ==
    API_KEY \in {Undefined, ""} =>
        /\ issued = <<>>
        /\ pc \in {"idle", "thrown"}
        /\ pc = "thrown" => result = Some(ConfigError)

C1_Witness ==
    /\ API_KEY = ""
    /\ pc = "thrown"
    /\ place = S_Springfield
    /\ result = Some(ConfigError)

\* C2: a lookup whose response is not ok is the last lookup of its invocation,
\* the invocation has thrown the HTTP error and returned no Result; and no
\* lookup (same kind, same URL) is issued twice in an invocation.
C2_FirstFailureEnds ==
    /\ \A i \in 1..Len(issued) :
         ~issued[i].resp.ok =>
            /\ i = Len(issued)
            /\ pc = "thrown"
            /\ result = Some(HttpError(issued[i].resp.status))
    /\ \A i, j \in 1..Len(issued) :
         (i < j /\ issued[i].kind = issued[j].kind) => issued[i].url # issued[j].url
    /\ pc = "thrown" => ("ok" \notin DOMAIN result[1])

C2_Witness ==
    /\ pc = "thrown"
    /\ Len(candidates) = 3
    /\ Len(issued) = 2
    /\ YieldedNothing(1)
    /\ ~issued[2].resp.ok
    /\ issued[2].url.q = candidates[2]

\* C3: the n-th geocode lookup is for the n-th candidate; a lookup that
\* yielded results is the last geocode lookup; the matches carried forward
\* come from that one answer: its first-per-coordinates items, in order (of
\* which one is kept once a best match is picked); and NotFound is returned
\* only after every candidate was tried and yielded nothing.
C3_FirstHitWins ==
    /\ \A i \in GeocodeIdx :
         /\ i <= Len(candidates)
         /\ \A j \in 1..i : issued[j].kind = "geocode"
         /\ issued[i].url.q = candidates[i]
         /\ YieldedResults(i) => \A j \in GeocodeIdx : j <= i
    /\ geo # None =>
         \E i \in GeocodeIdx :
            /\ YieldedResults(i)
            /\ LET items == issued[i].resp.body.items
                   K == FirstAtCoords(items)
               IN  IF pc = "returned" /\ ~result[1].ok
                   THEN ListsExactly(geo[1], items, K)
                   ELSE /\ Len(geo[1]) = 1
                        /\ \E k \in K : geo[1][1] = items[k]
                        /\ Cardinality(K) = 1 => ListsExactly(geo[1], items, K)
    /\ (Returned /\ result[1] = NotFound(place)) =>
         /\ Len(issued) = Len(candidates)
         /\ \A i \in 1..Len(issued) : YieldedNothing(i) /\ issued[i].url.q = candidates[i]
         /\ geo = None

C3_Witness ==
    /\ Len(candidates) = 3
    /\ Len(issued) = 2
    /\ YieldedNothing(1)
    /\ YieldedResults(2)
    /\ Len(issued[2].resp.body.items) = 3
    /\ Cardinality(FirstAtCoords(issued[2].resp.body.items)) = 2
    /\ pc = "current"

\* the input is not specific: no comma, no "united states", no "usa", no
\* standalone "us", whatever the case
NotSpecific(norm) ==
    LET l == toLowerCase(norm) IN
    /\ \A i \in 1..Len(norm) : norm[i] # ","
    /\ ~includes(l, UnitedStates)
    /\ ~includes(l, <<"u","s","a">>)
    /\ ~\E i \in 1..(Len(l) - 1) :
          /\ SubSeq(l, i, i + 1) = <<"u","s">>
          /\ (i = 1 \/ ~IsWordChar(l[i - 1]))
          /\ (i + 1 = Len(l) \/ ~IsWordChar(l[i + 2]))

\* C4: once a geocode lookup has yielded n > 1 matches at distinct
\* coordinates for an input that is not specific, the invocation has returned
\* {ok:false} with exactly min(3, n) options, ranked 1.. in geocoder order,
\* and has issued no current-conditions or forecast lookup.
C4_AmbiguousListsThree ==
    \A i \in GeocodeIdx :
        LET items == issued[i].resp.body.items
            K == FirstAtCoords(items)
            n == Cardinality(K)
        IN  (YieldedResults(i) /\ n > 1 /\ NotSpecific(normalized)) =>
              /\ Returned
              /\ result[1].ok = FALSE
              /\ result[1].template = "multiple matches"
              /\ result[1].place = place
              /\ Len(result[1].options) = (IF n < 3 THEN n ELSE 3)
              /\ \A r \in 1..Len(result[1].options) :
                    /\ result[1].options[r].rank = r
                    /\ \E k \in K :
                          /\ Cardinality({ j \in K : j < k }) = r - 1
                          /\ result[1].options[r].text =
                                items[k].name
                                \o (IF items[k].state # <<>>
                                    THEN <<",", " ">> \o items[k].state ELSE <<>>)
                                \o <<",", " ">> \o items[k].country
              /\ WeatherIdx("current") = {} /\ WeatherIdx("forecast") = {}

\* "Springfield", four matches of which three are shown
C4_Witness ==
    /\ place = S_Springfield
    /\ Returned
    /\ Len(issued) = 1
    /\ YieldedResults(1)
    /\ Cardinality(FirstAtCoords(issued[1].resp.body.items)) = 4
    /\ Len(result[1].options) = 3
    /\ Cardinality({ issued[1].resp.body.items[k].state : k \in 1..3 }) = 3

\* C5 as claimed: "Seattle, WA" yields 3 candidates.
C5_SeattleYieldsThree ==
    (place = P_SeattleWA /\ pc \notin {"idle", "thrown"}) => Len(candidates) = 3

\* C5: "Seattle, WA" yields the 2 candidates "Seattle, WA" and
\* "Seattle, WA, US": the country hint and the ", US" suffix give the same
\* string, which is kept once.
C5_SeattleYieldsTwo ==
    (place = P_SeattleWA /\ pc \notin {"idle", "thrown"}) =>
        candidates = << <<"S","e","a","t","t","l","e",","," ","W","A">>, <<"S","e","a","t","t","l","e",","," ","W","A",","," ","U","S">> >>

C5_Witness ==
    /\ place = P_SeattleWA
    /\ pc = "geocode"
    /\ Len(candidates) = 2

\* C6: the lookups of an invocation are geocode lookups, then at most one
\* current-conditions lookup, then at most one forecast lookup.  The
\* current-conditions lookup follows a geocode lookup that yielded results,
\* with resolution settled on one match; the forecast lookup follows the
\* successful current-conditions lookup; both carry that match's latitude
\* and longitude; and an ok:true Result follows both successes and names
\* that match.
C6_StrictOrder ==
    /\ \A i \in WeatherIdx("current") :
         /\ i > 1 /\ YieldedResults(i - 1)
         /\ \A j \in 1..(i - 1) : issued[j].kind = "geocode"
         /\ geo # None /\ Len(geo[1]) = 1
         /\ issued[i].url.lat = geo[1][1].lat /\ issued[i].url.lon = geo[1][1].lon
         /\ \E k \in 1..Len(issued[i - 1].resp.body.items) :
               issued[i - 1].resp.body.items[k] = geo[1][1]
    /\ \A i \in WeatherIdx("forecast") :
         /\ i > 1 /\ issued[i - 1].kind = "current" /\ issued[i - 1].resp.ok
         /\ i = Len(issued)
         /\ issued[i].url.lat = geo[1][1].lat /\ issued[i].url.lon = geo[1][1].lon
    /\ Cardinality(WeatherIdx("current")) <= 1
    /\ Cardinality(WeatherIdx("forecast")) <= 1
    /\ (Returned /\ result[1].ok) =>
         /\ Len(issued) >= 3
         /\ issued[Len(issued)].kind = "forecast" /\ issued[Len(issued)].resp.ok
         /\ issued[Len(issued) - 1].kind = "current" /\ issued[Len(issued) - 1].resp.ok
         /\ result[1].location =
                geo[1][1].name
                \o (IF geo[1][1].state # <<>> THEN <<",", " ">> \o geo[1][1].state ELSE <<>>)
                \o <<",", " ">> \o geo[1][1].country
    /\ pc = "current" => (WeatherIdx("current") = {} /\ result = None)
    /\ pc = "forecast" => (WeatherIdx("forecast") = {} /\ cur # None /\ result = None)
    /\ pc = "geocode" => (\A i \in 1..Len(issued) : YieldedNothing(i))

C6_Witness ==
    /\ Returned
    /\ result[1].ok
    /\ Len(result[1].nextDays) > 0
    /\ Len(issued) = 3
    /\ Len(issued[1].resp.body.items) > 1
    /\ issued[1].resp.body.items[1] # geo[1][1]
    /\ issued[2].url.lat # issued[2].url.lon

(***************************************************************************)
(* Properties of pickBestGeoMatch (specification SpecPick)                 *)
(***************************************************************************)
\* the least index of a non-empty set of indexes
FirstOf(S) == CHOOSE i \in S : \A j \in S : i <= j

\* the match the four rules select, given the lowercased second and third
\* segments (<<>> when the query has none)
RuleChoice(query, matches, seg2, seg3) ==
    LET R1 == { i \in 1..Len(matches) :
                  seg2 # <<>> /\ toLowerCase(matches[i].state) = seg2 }
        R2 == { i \in 1..Len(matches) :
                  /\ seg3 # <<>> /\ Len(seg3) <= 3
                  /\ toLowerCase(matches[i].country) = seg3 }
        R3 == { i \in 1..Len(matches) :
                  /\ matches[i].state # <<>>
                  /\ includes(toLowerCase(query), toLowerCase(matches[i].state)) }
    IN  IF R1 # {} THEN matches[FirstOf(R1)]
        ELSE IF R2 # {} THEN matches[FirstOf(R2)]
        ELSE IF R3 # {} THEN matches[FirstOf(R3)]
        ELSE matches[1]

\* C7 as claimed: the segments are the comma-split segments of the query,
\* trimmed, the second and the third by position.
C7_RulesOnCommaSegments ==
    ppc = "done" =>
        LET segs == TrimAll(split(pq))
            seg2 == IF Len(segs) >= 2 THEN toLowerCase(segs[2]) ELSE <<>>
            seg3 == IF Len(segs) >= 3 THEN toLowerCase(segs[3]) ELSE <<>>
        IN  /\ pr[1] = RuleChoice(pq, pm, seg2, seg3)
            /\ \E i \in 1..Len(pm) : pr[1] = pm[i]

\* C7: the segments are the non-empty trimmed comma-split segments of the
\* query, so an empty segment is passed over and the ones after it move up;
\* each rule returns the first match in list order that satisfies it, and
\* rule 3 looks at matches that have a state only.
C7_RulesOnNonEmptySegments ==
    ppc = "done" =>
        LET segs == SelectSeq(TrimAll(split(pq)), LAMBDA x : x # <<>>)
            seg2 == IF Len(segs) >= 2 THEN toLowerCase(segs[2]) ELSE <<>>
            seg3 == IF Len(segs) >= 3 THEN toLowerCase(segs[3]) ELSE <<>>
        IN  /\ pr[1] = RuleChoice(pq, pm, seg2, seg3)
            /\ \E i \in 1..Len(pm) : pr[1] = pm[i]

\* the country rule decides: the state token matches nothing, and the match
\* returned is not the first of the list
C7_Witness ==
    /\ ppc = "done"
    /\ pq = <<"P","a","r","i","s",","," ","x",","," ","F","R">>
    /\ Len(pm) = 3
    /\ pr[1].country = <<"F","R">>
    /\ pm[1].country # <<"F","R">>
    /\ pr[1] = pm[3]

(***************************************************************************)
(* Properties of summarizeForecast (specification SpecSummarize)           *)
(***************************************************************************)
\* the calendar date written in a key, as [y, m, d]
WrittenDate(key) ==
    [y |-> CharsToNum(SubSeq(key, 1, 4)),
     m |-> CharsToNum(SubSeq(key, 6, 7)),
     d |-> CharsToNum(SubSeq(key, 9, 10))]
\* a is an earlier calendar date than b
EarlierDate(a, b) ==
    \/ a.y < b.y
    \/ a.y = b.y /\ a.m < b.m
    \/ a.y = b.y /\ a.m = b.m /\ a.d < b.d

Buckets == { byDay[i].key : i \in 1..Len(byDay) }
Today == dayKeyFromUtcWithOffset(sNow, sTz)

\* C8: the days reported are the buckets other than today's if there is any,
\* else today's bucket alone; in ascending date order; the first `days` of
\* them; one DaySummary each.  So today's bucket is reported only when it is
\* the only bucket, the days are distinct and ascending, and there are at
\* most `days` of them.
C8_ChosenDays ==
    spc = "done" =>
        LET eligible == IF Buckets \ {Today} # {} THEN Buckets \ {Today} ELSE Buckets
            chosen == { sChosen[i] : i \in 1..Len(sChosen) }
        IN  /\ chosen \subseteq eligible
            /\ Len(sChosen) = (IF Cardinality(eligible) < sDays
                               THEN Cardinality(eligible) ELSE sDays)
            /\ \A i \in 1..(Len(sChosen) - 1) :
                  EarlierDate(WrittenDate(sChosen[i]), WrittenDate(sChosen[i + 1]))
            /\ \A k \in eligible \ chosen : \A c \in chosen :
                  EarlierDate(WrittenDate(c), WrittenDate(k))
            /\ Today \in chosen => Buckets = {Today}
            /\ Len(sOut) = Len(sChosen)
            /\ Len(sOut) <= sDays
            /\ \A i \in 1..Len(sOut) :
                  \E j \in 1..Len(byDay) :
                     /\ byDay[j].key = sChosen[i]
                     /\ sOut[i].min = byDay[j].min
                     /\ sOut[i].max = byDay[j].max
                     /\ sOut[i].pop = byDay[j].popMax

\* today's bucket exists among three and is left out: both other days reported
C8_Witness ==
    /\ spc = "done"
    /\ Cardinality(Buckets) = 3
    /\ Today \in Buckets
    /\ sDays = 2
    /\ Len(sOut) = 2
    /\ Today \notin { sChosen[i] : i \in 1..Len(sChosen) }

\* the label of the calendar date y-m-d itself
CalendarLabel(date) ==
    WeekdayNames[((DaysFromCivil(date.y, date.m, date.d) + 4) % 7) + 1]
        \o ", " \o MonthNames[date.m] \o " " \o ToString(date.d)

\* C9: every label names the weekday, month and day of the date written in
\* its key, whatever the location's offset and the machine's zone.
C9_LabelNamesKeyDate ==
    spc = "done" =>
        \A i \in 1..Len(sOut) : sOut[i].label = CalendarLabel(WrittenDate(sChosen[i]))

\* usable minimum / maximum of a point: its own, else the point temperature
HasMin(item) ==
    item.main # None /\ (item.main[1].temp_min # None \/ item.main[1].temp # None)
HasMax(item) ==
    item.main # None /\ (item.main[1].temp_max # None \/ item.main[1].temp # None)
MinOf(item) ==
    IF item.main[1].temp_min # None THEN item.main[1].temp_min[1] ELSE item.main[1].temp[1]
MaxOf(item) ==
    IF item.main[1].temp_max # None THEN item.main[1].temp_max[1] ELSE item.main[1].temp[1]
PopOf(item) == IF item.pop # None THEN item.pop[1] ELSE 0
DescOf(item) == IF item.desc # None THEN item.desc[1] ELSE "unknown"

\* the points the loop has been through
Processed == 1..(sIdx - 1)
KeyOf(i) == dayKeyFromUtcWithOffset(sList[i].dt, sTz)

\* the aggregates are those of the points in `folded`, and of no other point
AggregatesOf(folded) ==
    /\ Buckets = { KeyOf(i) : i \in folded }
    /\ \A j, k \in 1..Len(byDay) : byDay[j].key = byDay[k].key => j = k
    /\ \A j \in 1..Len(byDay) :
         LET mine == { i \in folded : KeyOf(i) = byDay[j].key } IN
         /\ \E i \in mine : byDay[j].min = MinOf(sList[i])
         /\ \A i \in mine : byDay[j].min <= MinOf(sList[i])
         /\ \E i \in mine : byDay[j].max = MaxOf(sList[i])
         /\ \A i \in mine : byDay[j].max >= MaxOf(sList[i])
         /\ byDay[j].popMax \in {0} \cup { PopOf(sList[i]) : i \in mine }
         /\ \A i \in mine : byDay[j].popMax >= PopOf(sList[i])
         /\ { c.desc : c \in { byDay[j].descCounts[n] : n \in 1..Len(byDay[j].descCounts) } }
              = { DescOf(sList[i]) : i \in mine }
         /\ \A n \in 1..Len(byDay[j].descCounts) :
              byDay[j].descCounts[n].count =
                Cardinality({ i \in mine : DescOf(sList[i]) = byDay[j].descCounts[n].desc })

\* C10 as claimed: a point is skipped only if it lacks both a usable minimum
\* and a usable maximum; every other point is folded.
C10_SkipsOnlyIfBothLack ==
    spc \in {"loop", "done"} =>
        AggregatesOf({ i \in Processed : HasMin(sList[i]) \/ HasMax(sList[i]) })

\* C10: a point is skipped exactly if it lacks a usable minimum or a usable
\* maximum (either one); every other point is folded into its day.  The
\* aggregates are those of the folded points alone, a day without a folded
\* point has no bucket and is not reported, and the call ends normally.
C10_SkipsIfEitherLacks ==
    spc \in {"loop", "done"} =>
        /\ AggregatesOf({ i \in Processed : HasMin(sList[i]) /\ HasMax(sList[i]) })
        /\ spc = "done" =>
             /\ Processed = 1..Len(sList)
             /\ \A n \in 1..Len(sChosen) :
                   \E i \in Processed :
                      HasMin(sList[i]) /\ HasMax(sList[i]) /\ KeyOf(i) = sChosen[n]

\* a list with a folded point, a point without temperatures and a point with
\* a minimum only, the last two alone on their days
C10_Witness ==
    /\ spc = "done"
    /\ Len(sList) = 3
    /\ HasMin(sList[1]) /\ HasMax(sList[1])
    /\ sList[2].main = None
    /\ HasMin(sList[3]) /\ ~HasMax(sList[3])
    /\ Cardinality({ KeyOf(i) : i \in 1..3 }) = 3
    /\ Len(byDay) = 1
    /\ Len(sOut) = 1

====
